---- MODULE Spec2Model ----
(***************************************************************************)
(* Library circulation domain of app.py: catalog entries (Book objects),   *)
(* loans, members, the librarian's catalog mutations and the e-book sweep. *)
(* Dates are day numbers; Book objects live in a heap (the sequence        *)
(* `books`) so that an entry replaced in or removed from the catalog stays *)
(* reachable from the loans that reference it.                             *)
(*                                                                         *)
(* Each domain method is one action.  auto_return_ebooks is no part of any *)
(* method: the page script calls it once per render, so the sweep is an    *)
(* action of its own that can run between any two calls.                   *)
(***************************************************************************)
EXTENDS Integers, Sequences, FiniteSets, TLC

\* ---------- program constants ----------
MAX_BORROW == 5
PhysicalDays == 7
EbookDays == 14
SeedPhysicalCopies == 3
SeedEbookCopies == 5

\* ---------- bounds of the exploration ----------
\* Spec: every operation, a long clock, few loans.
MaxDay == 16
MaxBorrowDay == 1
MaxBooks == 3
MaxNewCopies == 1
MaxIndex == 3
MaxBorrows == 2
\* SpecLimit: borrow, return and sweep on the seeded catalog, enough loans to
\* reach the borrow limit and to exhaust an entry.
MaxLimitBorrows == 6
MaxLimitIndex == 6

MemberIds == <<"alice", "bob">>
Members == {MemberIds[i] : i \in DOMAIN MemberIds}
ISBNs == {"111", "222", "333"}
BookTypes == {"Physical", "Ebook"}
NewTitles == {"New Title"}
NoBook == 0

\* today      the current date (dt.date.today()), a day number
\* books      the Book objects ever constructed, by object identity
\* inventory  st.session_state.inventory: isbn -> Book object (NoBook: no key)
\* loans      Member._loans of each member
\* result     the outcome returned by the last Member.borrow / return_book call
\* borrowed, returned, expired
\*            per Book object: successful borrow calls, successful return_book
\*            calls, loans closed by auto_return_ebooks (history)
VARIABLES today, books, inventory, loans, result, borrowed, returned, expired

vars == <<today, books, inventory, loans, result, borrowed, returned, expired>>

\* ---------- Book ----------
Book(isbn, title, type, total_copies) ==
  [isbn |-> isbn, title |-> title, type |-> type,
   total |-> total_copies, available |-> total_copies]

decrease_copy(bk) == [bk EXCEPT !.available = @ - 1]

increase_copy(bk) == [bk EXCEPT !.available = @ + 1]

\* ---------- Loan ----------
LoanDays_same(type) == EbookDays

LoanDays(type) == IF type = "Physical" THEN PhysicalDays ELSE EbookDays

Loan(B, b, m, borrow_date) ==
  [book |-> b, member |-> m, borrow_date |-> borrow_date,
   due_date |-> borrow_date + LoanDays(B[b].type)]

\* ---------- Member ----------
\* Each operation maps the loan table L and the heap B to the table, the
\* heap and the outcome the call returns.
\* Variants of borrow with one check or one step changed.
borrow_unchecked(L, B, m, b, d) ==
  IF Len(L[m]) >= MAX_BORROW
    THEN [loans |-> L, books |-> B, result |-> "BorrowLimitExceeded"]
  ELSE [loans |-> [L EXCEPT ![m] = Append(@, Loan(B, b, m, d))],
        books |-> [B EXCEPT ![b] = decrease_copy(@)],
        result |-> "Borrowed"]

borrow_over_limit(L, B, m, b, d) ==
  IF Len(L[m]) > MAX_BORROW
    THEN [loans |-> L, books |-> B, result |-> "BorrowLimitExceeded"]
  ELSE IF B[b].available <= 0
    THEN [loans |-> L, books |-> B, result |-> "NoCopiesAvailable"]
  ELSE [loans |-> [L EXCEPT ![m] = Append(@, Loan(B, b, m, d))],
        books |-> [B EXCEPT ![b] = decrease_copy(@)],
        result |-> "Borrowed"]

borrow_late_limit(L, B, m, b, d) ==
  IF B[b].available <= 0
    THEN [loans |-> L, books |-> B, result |-> "NoCopiesAvailable"]
  ELSE IF Len(L[m]) >= MAX_BORROW
    THEN [loans |-> L, books |-> [B EXCEPT ![b] = decrease_copy(@)],
          result |-> "BorrowLimitExceeded"]
  ELSE [loans |-> [L EXCEPT ![m] = Append(@, Loan(B, b, m, d))],
        books |-> [B EXCEPT ![b] = decrease_copy(@)],
        result |-> "Borrowed"]

borrow_below_zero(L, B, m, b, d) ==
  IF Len(L[m]) >= MAX_BORROW
    THEN [loans |-> L, books |-> B, result |-> "BorrowLimitExceeded"]
  ELSE IF B[b].available < 0
    THEN [loans |-> L, books |-> B, result |-> "NoCopiesAvailable"]
  ELSE [loans |-> [L EXCEPT ![m] = Append(@, Loan(B, b, m, d))],
        books |-> [B EXCEPT ![b] = decrease_copy(@)],
        result |-> "Borrowed"]

borrow_copies_first(L, B, m, b, d) ==
  IF B[b].available <= 0
    THEN [loans |-> L, books |-> B, result |-> "NoCopiesAvailable"]
  ELSE IF Len(L[m]) >= MAX_BORROW
    THEN [loans |-> L, books |-> B, result |-> "BorrowLimitExceeded"]
  ELSE [loans |-> [L EXCEPT ![m] = Append(@, Loan(B, b, m, d))],
        books |-> [B EXCEPT ![b] = decrease_copy(@)],
        result |-> "Borrowed"]

borrow(L, B, m, b, d) ==
  IF Len(L[m]) >= MAX_BORROW
    THEN [loans |-> L, books |-> B, result |-> "BorrowLimitExceeded"]
  ELSE IF B[b].available <= 0
    THEN [loans |-> L, books |-> B, result |-> "NoCopiesAvailable"]
  ELSE [loans |-> [L EXCEPT ![m] = Append(@, Loan(B, b, m, d))],
        books |-> [B EXCEPT ![b] = decrease_copy(@)],
        result |-> "Borrowed"]

\* list.pop(i): positions are 0-based, a negative i counts from the end,
\* anything outside -len..len-1 raises IndexError.
PopPos_off_by_one(len, i) ==
  IF 0 <= i /\ i < len THEN i
  ELSE IF i < 0 /\ 0 - len <= i THEN len + i + 1
  ELSE 0

PopPos(len, i) ==
  IF 0 <= i /\ i < len THEN i + 1
  ELSE IF i < 0 /\ 0 - len <= i THEN len + i + 1
  ELSE 0

\* Variant of the removal that also drops what follows the position.
RemoveAt_tail(s, p) == SubSeq(s, 1, p - 1)

RemoveAt(s, p) == SubSeq(s, 1, p - 1) \o SubSeq(s, p + 1, Len(s))

return_book_no_increase(L, B, m, loan_index) ==
  LET p == PopPos(Len(L[m]), loan_index) IN
  IF p = 0
    THEN [loans |-> L, books |-> B, result |-> "InvalidLoanIndex"]
    ELSE [loans |-> [L EXCEPT ![m] = RemoveAt(@, p)],
          books |-> B,
          result |-> "Returned"]

return_book(L, B, m, loan_index) ==
  LET p == PopPos(Len(L[m]), loan_index) IN
  IF p = 0
    THEN [loans |-> L, books |-> B, result |-> "InvalidLoanIndex"]
    ELSE [loans |-> [L EXCEPT ![m] = RemoveAt(@, p)],
          books |-> [B EXCEPT ![L[m][p].book] = increase_copy(@)],
          result |-> "Returned"]

\* ---------- LoanManager ----------
\* Variants of the expiry condition.
Expired_any(B, loan, d) == loan.due_date < d

Expired_on_due_day(B, loan, d) == B[loan.book].type = "Ebook" /\ loan.due_date <= d

Expired_physical(B, loan, d) == B[loan.book].type = "Physical" /\ loan.due_date < d

Expired(B, loan, d) == B[loan.book].type = "Ebook" /\ loan.due_date < d

RECURSIVE SweepMember_no_increase(_, _, _, _, _)
SweepMember_no_increase(ls, i, still_open, B, d) ==
  IF i > Len(ls) THEN [still_open |-> still_open, books |-> B]
  ELSE IF Expired(B, ls[i], d)
    THEN SweepMember_no_increase(ls, i + 1, still_open, B, d)
    ELSE SweepMember_no_increase(ls, i + 1, Append(still_open, ls[i]), B, d)

RECURSIVE SweepMember_keep(_, _, _, _, _)
SweepMember_keep(ls, i, still_open, B, d) ==
  IF i > Len(ls) THEN [still_open |-> still_open, books |-> B]
  ELSE IF Expired(B, ls[i], d)
    THEN SweepMember_keep(ls, i + 1, Append(still_open, ls[i]),
                          [B EXCEPT ![ls[i].book] = increase_copy(@)], d)
    ELSE SweepMember_keep(ls, i + 1, Append(still_open, ls[i]), B, d)

RECURSIVE SweepMember(_, _, _, _, _)
SweepMember(ls, i, still_open, B, d) ==
  IF i > Len(ls) THEN [still_open |-> still_open, books |-> B]
  ELSE IF Expired(B, ls[i], d)
    THEN SweepMember(ls, i + 1, still_open,
                     [B EXCEPT ![ls[i].book] = increase_copy(@)], d)
    ELSE SweepMember(ls, i + 1, Append(still_open, ls[i]), B, d)

RECURSIVE SweepFrom(_, _, _, _)
SweepFrom(k, L, B, d) ==
  IF k > Len(MemberIds) THEN [loans |-> L, books |-> B]
  ELSE LET m == MemberIds[k]
           r == SweepMember(L[m], 1, <<>>, B, d)
       IN SweepFrom(k + 1, [L EXCEPT ![m] = r.still_open], r.books, d)

auto_return_ebooks(L, B, d) == SweepFrom(1, L, B, d)

\* ---------- Librarian ----------
\* ---------- dashboards ----------
MemberName(m) == IF m = "alice" THEN "Alice" ELSE "Bob"

\* Variant of Member.dashboard that counts the due day as overdue.
Member_dashboard_due_day(L, B, m, d) ==
  [name |-> MemberName(m),
   loans |-> [i \in 1..Len(L[m]) |->
                [title |-> B[L[m][i].book].title,
                 type |-> B[L[m][i].book].type,
                 due |-> L[m][i].due_date,
                 overdue |-> L[m][i].due_date <= d]]]

\* Member.dashboard: one row per loan of the member, in sequence order.
Member_dashboard(L, B, m, d) ==
  [name |-> MemberName(m),
   loans |-> [i \in 1..Len(L[m]) |->
                [title |-> B[L[m][i].book].title,
                 type |-> B[L[m][i].book].type,
                 due |-> L[m][i].due_date,
                 overdue |-> L[m][i].due_date < d]]]

\* Librarian.dashboard: one row per catalog value (isbn keys are unique, so
\* the rows are kept as a set; the dict's iteration order is not modelled).
Librarian_dashboard(inv, B) ==
  {[isbn |-> B[inv[k]].isbn, title |-> B[inv[k]].title,
    type |-> B[inv[k]].type, copies |-> B[inv[k]].available] :
     k \in {i \in ISBNs : inv[i] # NoBook}}

\* The Book objects each dashboard reads its rows from.
MemberShown(L, m) == {L[m][i].book : i \in 1..Len(L[m])}

LibrarianShown(inv) == {inv[i] : i \in ISBNs} \ {NoBook}

\* Variant of add_book that keeps an entry already stored under the isbn.
add_book_keep(inv, isbn, b) ==
  IF inv[isbn] = NoBook THEN [inv EXCEPT ![isbn] = b] ELSE inv

add_book(inv, isbn, b) == [inv EXCEPT ![isbn] = b]

remove_book(inv, isbn) == [inv EXCEPT ![isbn] = NoBook]

\* ---------- session state ----------
Init ==
  /\ today = 0
  /\ books = << Book("111", "Python 101", "Physical", SeedPhysicalCopies),
                Book("222", "Streamlit in Action", "Ebook", SeedEbookCopies) >>
  /\ inventory = [i \in ISBNs |-> IF i = "111" THEN 1 ELSE IF i = "222" THEN 2 ELSE NoBook]
  /\ loans = [m \in Members |-> <<>>]
  /\ result = "None"
  /\ borrowed = <<0, 0>>
  /\ returned = <<0, 0>>
  /\ expired = <<0, 0>>

RECURSIVE SumSeq(_)
SumSeq(s) == IF s = <<>> THEN 0 ELSE Head(s) + SumSeq(Tail(s))

Catalog == {inventory[i] : i \in ISBNs} \ {NoBook}

\* Open loans that reference Book object b, over all members.
OpenLoans(L, b) ==
  Cardinality({<<m, i>> \in Members \X (1..MAX_BORROW + 1) :
                 i <= Len(L[m]) /\ L[m][i].book = b})

\* ---------- operations ----------
MemberBorrow(m, b) ==
  /\ LET r == borrow(loans, books, m, b, today) IN
       /\ loans' = r.loans
       /\ books' = r.books
       /\ result' = r.result
       /\ borrowed' = IF r.result = "Borrowed"
                         THEN [borrowed EXCEPT ![b] = @ + 1] ELSE borrowed
  /\ UNCHANGED <<today, inventory, returned, expired>>

MemberReturn(m, i) ==
  /\ LET r == return_book(loans, books, m, i) IN
       /\ loans' = r.loans
       /\ books' = r.books
       /\ result' = r.result
       /\ returned' = IF r.result = "Returned"
                         THEN [returned EXCEPT ![loans[m][PopPos(Len(loans[m]), i)].book] = @ + 1]
                         ELSE returned
  /\ UNCHANGED <<today, inventory, borrowed, expired>>

Sweep ==
  /\ LET r == auto_return_ebooks(loans, books, today) IN
       /\ loans' = r.loans
       /\ books' = r.books
       /\ expired' = [b \in DOMAIN expired |->
                        expired[b] + OpenLoans(loans, b) - OpenLoans(r.loans, b)]
  /\ UNCHANGED <<today, inventory, result, borrowed, returned>>

\* The librarian form constructs the Book and hands it to add_book.
LibrarianAdd(isbn, title, type, copies) ==
  /\ books' = Append(books, Book(isbn, title, type, copies))
  /\ inventory' = add_book(inventory, isbn, Len(books) + 1)
  /\ borrowed' = Append(borrowed, 0)
  /\ returned' = Append(returned, 0)
  /\ expired' = Append(expired, 0)
  /\ UNCHANGED <<today, loans, result>>

\* Variant of the removal that also drops the loans on the removed entry.
LibrarianRemove_cascade(isbn) ==
  /\ inventory' = remove_book(inventory, isbn)
  /\ loans' = [m \in Members |->
                 SelectSeq(loans[m], LAMBDA l : l.book # inventory[isbn])]
  /\ UNCHANGED <<today, books, result, borrowed, returned, expired>>

LibrarianRemove(isbn) ==
  /\ inventory' = remove_book(inventory, isbn)
  /\ UNCHANGED <<today, books, loans, result, borrowed, returned, expired>>

AdvanceDay ==
  /\ today' = today + 1
  /\ UNCHANGED <<books, inventory, loans, result, borrowed, returned, expired>>

\* A borrow call is explored while fewer than cap borrows have succeeded;
\* a call that declines is always explored.
BorrowWithin(cap, m, b) ==
  /\ borrow(loans, books, m, b, today).result = "Borrowed" => SumSeq(borrowed) < cap
  /\ MemberBorrow(m, b)

Next ==
  \/ \E m \in Members, b \in Catalog :
        today <= MaxBorrowDay /\ BorrowWithin(MaxBorrows, m, b)
  \/ \E m \in Members, i \in (0 - MaxIndex)..MaxIndex : MemberReturn(m, i)
  \/ Sweep
  \/ \E isbn \in ISBNs, title \in NewTitles, type \in BookTypes, copies \in 1..MaxNewCopies :
        Len(books) < MaxBooks /\ LibrarianAdd(isbn, title, type, copies)
  \/ \E isbn \in ISBNs : LibrarianRemove(isbn)
  \/ today < MaxDay /\ AdvanceDay

Spec == Init /\ [][Next]_vars

\* The clock keeps moving and the page keeps being rendered, which runs the
\* sweep (app.py:161).
\* FairSpec keeps the catalog as seeded.  A loan is taken only while the
\* modelled calendar still holds the day after its latest due date, so the
\* end of the calendar never stands in for a loan that is not swept.
NextFair ==
  \/ \E m \in Members, b \in Catalog :
        /\ today <= MaxBorrowDay
        /\ today + EbookDays < MaxDay
        /\ BorrowWithin(MaxBorrows, m, b)
  \/ \E m \in Members, i \in (0 - MaxIndex)..MaxIndex : MemberReturn(m, i)
  \/ Sweep
  \/ today < MaxDay /\ AdvanceDay

FairSpec ==
  /\ Init /\ [][NextFair]_vars
  /\ WF_vars(today < MaxDay /\ AdvanceDay)
  /\ WF_vars(Sweep)

NextLimit ==
  \/ \E m \in Members, b \in Catalog : BorrowWithin(MaxLimitBorrows, m, b)
  \/ \E m \in Members, i \in (0 - MaxLimitIndex)..MaxLimitIndex : MemberReturn(m, i)
  \/ Sweep

SpecLimit == Init /\ [][NextLimit]_vars

\* ---------- properties ----------
Declined(kind) == [loans |-> loans, books |-> books, result |-> kind]

\* C1: every Book object, in the catalog or detached from it, keeps
\* 0 <= availableCopies <= totalCopies in every reachable state.
C1_CopiesInRange ==
  \A b \in DOMAIN books :
    0 <= books[b].available /\ books[b].available <= books[b].total

\* An entry with no copy left that is no longer in the catalog, after a borrow
\* on it was declined.
C1_Witness ==
  \E b \in DOMAIN books :
    /\ b \notin Catalog
    /\ books[b].available = 0
    /\ result = "NoCopiesAvailable"

\* C2: no member ever holds more than MAX_BORROW active loans.
C2_LoanLimit == \A m \in Members : Len(loans[m]) <= MAX_BORROW

C2_Witness == \E m \in Members : Len(loans[m]) = MAX_BORROW

\* C3: a member holding MAX_BORROW loans who calls borrow on any entry gets
\* BorrowLimitExceeded, and neither the loan table nor any entry changes.
C3_BorrowAtLimit ==
  \A m \in Members, b \in DOMAIN books :
    Len(loans[m]) = MAX_BORROW =>
      borrow(loans, books, m, b, today) = Declined("BorrowLimitExceeded")

\* A sixth borrow has been declined and the member still holds five loans.
C3_Witness ==
  /\ result = "BorrowLimitExceeded"
  /\ \E m \in Members : Len(loans[m]) = MAX_BORROW

\* C4: a member below the limit who calls borrow on an entry with no copy
\* available gets NoCopiesAvailable, no loan is created and the count stays 0;
\* and once an entry has totalCopies open loans no member can borrow it.
C4_NoCopies ==
  \A m \in Members, b \in DOMAIN books :
    /\ (Len(loans[m]) < MAX_BORROW /\ books[b].available = 0) =>
          borrow(loans, books, m, b, today) = Declined("NoCopiesAvailable")
    /\ OpenLoans(loans, b) = books[b].total =>
          borrow(loans, books, m, b, today).result # "Borrowed"

\* Scenario 1: the three copies of "111" are out and a fourth borrow was declined.
C4_Witness ==
  /\ result = "NoCopiesAvailable"
  /\ books[1].available = 0
  /\ OpenLoans(loans, 1) = SeedPhysicalCopies
  /\ \E m \in Members : Len(loans[m]) = 0

\* C5: return_book with an index that is no position of the member's loan
\* sequence (negative, or at or past its length) yields InvalidLoanIndex and
\* changes neither the loan table nor any entry.
C5_InvalidIndexDeclined ==
  \A m \in Members, i \in (0 - MaxLimitIndex)..MaxLimitIndex :
    (i < 0 \/ i >= Len(loans[m])) =>
      return_book(loans, books, m, i) = Declined("InvalidLoanIndex")

\* C6: every step changes an entry's availableCopies by minus the change in
\* the number of open loans on it, so availableCopies plus the open loans on
\* the entry is totalCopies in every reachable state.
C6_Conserved ==
  \A b \in DOMAIN books :
    books[b].available + OpenLoans(loans, b) = books[b].total

C6_StepBalanced ==
  \A b \in DOMAIN books :
    books'[b].available - books[b].available
      = OpenLoans(loans, b) - OpenLoans(loans', b)

C6_NoPartialApplication == [](C6_Conserved) /\ [][C6_StepBalanced]_vars

\* A return and a sweep expiry have both closed loans, and the last call
\* was declined.
C6_Witness ==
  /\ result = "InvalidLoanIndex"
  /\ \E b \in DOMAIN books : returned[b] > 0
  /\ \E b \in DOMAIN books : expired[b] > 0

\* C7 as claimed: availableCopies = totalCopies - N + M, with N the successful
\* borrow calls and M the successful return_book calls on the entry.
C7_BorrowReturnCount ==
  \A b \in DOMAIN books :
    books[b].available = books[b].total - borrowed[b] + returned[b]

\* C7 amended: availableCopies = totalCopies - N + M + X, with X the loans on
\* the entry that auto_return_ebooks has closed.
C7_CountWithSweep ==
  \A b \in DOMAIN books :
    books[b].available = books[b].total - borrowed[b] + returned[b] + expired[b]

C7_Witness ==
  \E b \in DOMAIN books : borrowed[b] > 1 /\ returned[b] > 0 /\ expired[b] > 0

\* C8: wherever a borrow by m on e succeeds, returning the last position of
\* m's sequence right after it restores every entry's availableCopies and
\* every member's loan sequence.
C8_RoundTrip ==
  \A m \in Members, b \in DOMAIN books :
    LET r1 == borrow(loans, books, m, b, today) IN
    r1.result = "Borrowed" =>
      LET r2 == return_book(r1.loans, r1.books, m, Len(r1.loans[m]) - 1) IN
      /\ r2.result = "Returned"
      /\ r2.loans = loans
      /\ r2.books = books

\* A return has just succeeded for a member who keeps an earlier loan and can
\* borrow again.
C8_Witness ==
  /\ result = "Returned"
  /\ \E m \in Members, b \in Catalog :
       /\ Len(loans[m]) >= 1
       /\ borrow(loans, books, m, b, today).result = "Borrowed"

\* C9: on the same date, sweeping twice gives the state that sweeping once gives.
C9_SweepIdempotent ==
  LET r1 == auto_return_ebooks(loans, books, today)
      r2 == auto_return_ebooks(r1.loans, r1.books, today)
  IN r2 = r1

\* A sweep has closed an e-book loan and an e-book loan that is not yet past
\* due is still open.
C9_Witness ==
  /\ \E b \in DOMAIN books : expired[b] > 0
  /\ \E m \in Members : \E i \in 1..Len(loans[m]) :
       books[loans[m][i].book].type = "Ebook"

\* C10: a loan borrowed on date D is due on D + 7 (Physical) or D + 14
\* (Ebook), and no step changes the due date of a loan that stays open.
C10_DueOf(loan) ==
  loan.borrow_date
    + (IF books[loan.book].type = "Physical" THEN PhysicalDays ELSE EbookDays)

C10_DueDates ==
  \A m \in Members : \A i \in 1..Len(loans[m]) :
    loans[m][i].due_date = C10_DueOf(loans[m][i])

C10_LoansKept ==
  \A m \in Members : \A j \in 1..Len(loans'[m]) :
    \/ \E i \in 1..Len(loans[m]) : loans'[m][j] = loans[m][i]
    \/ /\ j = Len(loans'[m])
       /\ result' = "Borrowed"
       /\ loans'[m][j].borrow_date = today
       /\ loans'[m][j].due_date = C10_DueOf(loans'[m][j])

C10_DueDateLaw == [](C10_DueDates) /\ [][C10_LoansKept]_vars

\* A Physical loan past its due date and an Ebook loan taken a day later are
\* both still open.
C10_Witness ==
  \E m1 \in Members, m2 \in Members :
    \E i \in 1..Len(loans[m1]), j \in 1..Len(loans[m2]) :
      /\ books[loans[m1][i].book].type = "Physical"
      /\ loans[m1][i].due_date = PhysicalDays
      /\ today > loans[m1][i].due_date
      /\ books[loans[m2][j].book].type = "Ebook"
      /\ loans[m2][j].due_date = EbookDays + 1

\* C11: a sweep keeps every Physical loan of every member, however far past
\* due, and a Physical loan leaves a member's sequence only in a step that is
\* a successful return_book call of that member.
PhysicalLoans(ls) == SelectSeq(ls, LAMBDA l : books[l.book].type = "Physical")

C11_SweepKeepsPhysical ==
  \A m \in Members :
    PhysicalLoans(auto_return_ebooks(loans, books, today).loans[m])
      = PhysicalLoans(loans[m])

C11_PhysicalLeavesByReturn ==
  \A m \in Members :
    Len(PhysicalLoans(loans'[m])) < Len(PhysicalLoans(loans[m])) =>
      /\ result' = "Returned"
      /\ \E i \in (0 - MAX_BORROW)..(MAX_BORROW - 1) : MemberReturn(m, i)

C11_PhysicalNeverSwept ==
  [](C11_SweepKeepsPhysical) /\ [][C11_PhysicalLeavesByReturn]_vars

\* A sweep has closed an e-book loan while a Physical loan past due stays open.
C11_Witness ==
  /\ \E b \in DOMAIN books : expired[b] > 0
  /\ \E m \in Members : \E i \in 1..Len(loans[m]) :
       /\ books[loans[m][i].book].type = "Physical"
       /\ loans[m][i].due_date < today

\* C12: no return_book call removes an Ebook loan from a member's sequence;
\* return_book closes Physical loans only.
EbookLoans(ls) == SelectSeq(ls, LAMBDA l : books[l.book].type = "Ebook")

C12_ReturnKeepsEbook ==
  \A m \in Members, i \in (0 - MAX_BORROW)..(MAX_BORROW - 1) :
    EbookLoans(return_book(loans, books, m, i).loans[m]) = EbookLoans(loans[m])

\* C13 as claimed: add_book on an isbn already in the catalog maps the isbn to
\* the new entry, leaves the other keys alone, and the old entry is shown by
\* no dashboard afterwards, the librarian's or any member's.
C13_AddOverPresent(isbn) ==
  /\ inventory[isbn] # NoBook
  /\ \E title \in NewTitles, type \in BookTypes, copies \in 1..MaxNewCopies :
       LibrarianAdd(isbn, title, type, copies)

C13_CatalogReplaced(isbn) ==
  LET old == inventory[isbn]
      new == Len(books) + 1
  IN /\ inventory'[isbn] = new
     /\ books'[new].isbn = isbn
     /\ \A k \in ISBNs \ {isbn} : inventory'[k] = inventory[k]
     /\ old \notin LibrarianShown(inventory')
     /\ [isbn |-> isbn, title |-> books'[new].title, type |-> books'[new].type,
         copies |-> books'[new].total] \in Librarian_dashboard(inventory', books')

C13_OldGoneEverywhere ==
  \A isbn \in ISBNs :
    C13_AddOverPresent(isbn) =>
      /\ C13_CatalogReplaced(isbn)
      /\ \A m \in Members : inventory[isbn] \notin MemberShown(loans', m)

C13_FullyReplaced == [][C13_OldGoneEverywhere]_vars

\* C13 amended: the catalog and the librarian's dashboard no longer hold the
\* old entry; every member's dashboard is what it was before the call, so the
\* old entry's title stays on the dashboard of a member with a loan on it.
C13_OldGoneFromCatalog ==
  \A isbn \in ISBNs :
    C13_AddOverPresent(isbn) =>
      /\ C13_CatalogReplaced(isbn)
      /\ \A m \in Members :
           Member_dashboard(loans', books', m, today')
             = Member_dashboard(loans, books, m, today)

C13_ReplacedInCatalog == [][C13_OldGoneFromCatalog]_vars

\* An entry detached from the catalog still has an open loan while another
\* entry is stored under its isbn.
C13_Witness ==
  \E b \in DOMAIN books, k \in ISBNs :
    /\ b \notin Catalog
    /\ inventory[k] # NoBook
    /\ books[b].isbn = k
    /\ books[inventory[k]].isbn = k
    /\ OpenLoans(loans, b) > 0

\* C14: a sweep on date T leaves each member exactly the loans that are not
\* (Ebook and due before T), in their order; an Ebook loan borrowed on day D
\* stays through day D + 14 and goes on day D + 15, and each loan dropped
\* raises its entry's availableCopies by one.
C14_Stays(l) == ~(books[l.book].type = "Ebook" /\ l.due_date < today)

C14_StaysByBorrowDay(l) ==
  books[l.book].type = "Ebook" => today <= l.borrow_date + EbookDays

C14_SweepPartition ==
  LET r == auto_return_ebooks(loans, books, today) IN
  /\ \A m \in Members :
       /\ r.loans[m] = SelectSeq(loans[m], C14_Stays)
       /\ r.loans[m] = SelectSeq(loans[m], C14_StaysByBorrowDay)
  /\ \A b \in DOMAIN books :
       r.books[b].available
         = books[b].available + OpenLoans(loans, b) - OpenLoans(r.loans, b)

\* On the due day of one Ebook loan, which is still open, a sweep has closed
\* exactly one earlier loan of an entry and given that copy back.
C14_Witness ==
  /\ \E b \in DOMAIN books :
       /\ expired[b] = 1
       /\ books[b].available = books[b].total - OpenLoans(loans, b)
       /\ OpenLoans(loans, b) = 1
  /\ \E m \in Members : \E i \in 1..Len(loans[m]) :
       /\ books[loans[m][i].book].type = "Ebook"
       /\ loans[m][i].due_date = today

\* C15: return_book(i) with 0 <= i < len succeeds, removes the loan at
\* position i alone (later loans move down by one, order kept), adds one to
\* that loan's entry and touches no other entry and no other member.
C15_ReturnFrame ==
  \A m \in Members : \A i \in 0..(Len(loans[m]) - 1) :
    LET r == return_book(loans, books, m, i)
        old == loans[m]
        b == old[i + 1].book
    IN /\ r.result = "Returned"
       /\ Len(r.loans[m]) = Len(old) - 1
       /\ \A j \in 1..(Len(old) - 1) :
            r.loans[m][j] = IF j <= i THEN old[j] ELSE old[j + 1]
       /\ r.books[b].available = books[b].available + 1
       /\ \A c \in DOMAIN books \ {b} : r.books[c] = books[c]
       /\ DOMAIN r.books = DOMAIN books
       /\ \A m2 \in Members \ {m} : r.loans[m2] = loans[m2]

\* A return has succeeded for a member who keeps loans of both entries, and
\* the other member holds loans too.
C15_Witness ==
  /\ result = "Returned"
  /\ \E m \in Members :
       /\ \E i, j \in 1..Len(loans[m]) : loans[m][i].book # loans[m][j].book
       /\ \E m2 \in Members \ {m} : Len(loans[m2]) > 0

\* C16: with the date advancing and the sweep running again and again, every
\* open Ebook loan is eventually gone from its member's sequence, and right
\* after a sweep no member holds an Ebook loan that was due before that day.
C16_EbookOpen(due) ==
  \E m \in Members : \E i \in 1..Len(loans[m]) :
    books[loans[m][i].book].type = "Ebook" /\ loans[m][i].due_date = due

C16_NoneOverdueAfterSweep ==
  Sweep =>
    \A m \in Members : \A i \in 1..Len(loans'[m]) :
      ~(books'[loans'[m][i].book].type = "Ebook" /\ loans'[m][i].due_date < today')

C16_EbooksExpire ==
  /\ \A due \in EbookDays..(EbookDays + MaxBorrowDay) :
       C16_EbookOpen(due) ~> ~C16_EbookOpen(due)
  /\ [][C16_NoneOverdueAfterSweep]_vars

\* Every Ebook loan taken has been closed by the sweep, none by a return.
C16_Witness ==
  /\ \E b \in DOMAIN books : expired[b] > 1 /\ expired[b] = borrowed[b]
  /\ \A m \in Members : \A i \in 1..Len(loans[m]) :
       books[loans[m][i].book].type # "Ebook"

\* C17: Member.dashboard has one row per active loan, in the sequence's
\* order, with the loan's title, type and due date, and overdue set exactly
\* when the due date is before today (a loan due today is not overdue).
C17_DashboardRows ==
  \A m \in Members :
    LET rows == Member_dashboard(loans, books, m, today).loans IN
    /\ DOMAIN rows = 1..Len(loans[m])
    /\ \A i \in 1..Len(loans[m]) :
         /\ rows[i].title = books[loans[m][i].book].title
         /\ rows[i].type = books[loans[m][i].book].type
         /\ rows[i].due = loans[m][i].due_date
         /\ rows[i].overdue = (loans[m][i].due_date < today)
         /\ loans[m][i].due_date = today => ~rows[i].overdue

\* A dashboard with a row that is overdue and a later row that is due today.
C17_Witness ==
  \E m \in Members : \E i, j \in 1..Len(loans[m]) :
    /\ i < j
    /\ loans[m][i].due_date < today
    /\ loans[m][j].due_date = today
    /\ books[loans[m][i].book].title # books[loans[m][j].book].title

\* C18: the limit is checked before the copies: a member at MAX_BORROW who
\* asks for an entry with no copy left gets BorrowLimitExceeded, and
\* NoCopiesAvailable is returned only to a member below the limit.
C18_LimitFirst ==
  \A m \in Members, b \in DOMAIN books :
    LET r == borrow(loans, books, m, b, today) IN
    /\ (Len(loans[m]) = MAX_BORROW /\ books[b].available = 0) =>
          r.result = "BorrowLimitExceeded"
    /\ r.result = "NoCopiesAvailable" => Len(loans[m]) < MAX_BORROW

\* A member at the limit was declined for the limit while the entry "111"
\* has no copy left.
C18_Witness ==
  /\ result = "BorrowLimitExceeded"
  /\ \E m \in Members : Len(loans[m]) = MAX_BORROW
  /\ books[1].available = 0

\* C19: add_book and remove_book change the catalog mapping and nothing
\* else (no loan sequence, no availableCopies of an existing Book object);
\* remove_book of an absent isbn changes nothing.  A loan on an entry that is
\* no longer in the catalog stays open, can be returned and is swept; closing
\* it adds to the detached entry alone: the catalog mapping and the entry now
\* stored under that isbn are left as they were.
C19_CatalogOnly ==
  (inventory' # inventory \/ Len(books') # Len(books)) =>
    /\ loans' = loans
    /\ result' = result
    /\ \A b \in DOMAIN books : books'[b] = books[b]

C19_DetachedClose ==
  \A b \in DOMAIN books :
    (b \notin Catalog /\ OpenLoans(loans', b) < OpenLoans(loans, b)) =>
      /\ inventory' = inventory
      /\ books'[b].available
           = books[b].available + OpenLoans(loans, b) - OpenLoans(loans', b)
      /\ \A c \in DOMAIN books \ {b} :
           OpenLoans(loans', c) = OpenLoans(loans, c) => books'[c] = books[c]

C19_DetachedStillCloses ==
  /\ \A isbn \in ISBNs :
       inventory[isbn] = NoBook => remove_book(inventory, isbn) = inventory
  /\ \A m \in Members : \A i \in 1..Len(loans[m]) :
       loans[m][i].book \notin Catalog =>
         /\ return_book(loans, books, m, i - 1).result = "Returned"
         /\ (books[loans[m][i].book].type = "Ebook" /\ loans[m][i].due_date < today) =>
              LET kept == auto_return_ebooks(loans, books, today).loans[m] IN
              \A j \in 1..Len(kept) : kept[j] # loans[m][i]

C19_LibrarianFrame ==
  /\ [](C19_DetachedStillCloses)
  /\ [][C19_CatalogOnly /\ C19_DetachedClose]_vars

\* The entry first stored under an isbn was replaced while on loan; the new
\* entry was then borrowed and the old loan returned after that: the old
\* entry has its copy back and the new entry's count is still one short.
C19_Witness ==
  \E b \in DOMAIN books, k \in ISBNs :
    LET c == inventory[k] IN
    /\ c # NoBook
    /\ c # b
    /\ b \notin Catalog
    /\ books[b].isbn = k
    /\ result = "Returned"
    /\ borrowed[b] = 1 /\ returned[b] = 1
    /\ books[b].available = books[b].total
    /\ borrowed[c] = 1 /\ OpenLoans(loans, c) = 1
    /\ books[c].available = books[c].total - 1
====
